---- MODULE Spec2Model ----
(***************************************************************************)
(* FGaussianClusterBuilder::BuildClusterHierarchy and the cluster types it *)
(* fills, as a state machine over the positions of one call.               *)
(*                                                                         *)
(* Number representation.                                                  *)
(*  - float values (positions, bounds, radii, errors) are fixed point:     *)
(*    the integer v stands for v / Q, and a square root rounds down to     *)
(*    that grid, as a float square root rounds to its own grid.            *)
(*  - uint32 values are held as the int32 with the same bit pattern, so    *)
(*    0xFFFFFFFF is -1 and static_cast<uint32>(int32) keeps the value;     *)
(*    unsigned comparisons go through ULess.                               *)
(*  - uint64 values (the Morton code) are the set of their one-bits.       *)
(*  - array indices of the code are 0-based, sequences here 1-based.       *)
(***************************************************************************)
EXTENDS Integers, Sequences, FiniteSets, TLC

\* ---------------------------------------------------------------- bounds
MaxSplats == 6
MaxLeafSize == 3
MaxChildren == 3
\* the settings tried reach this many values below 1 (0, -1, ...)
MaxBelowOne == 2
MaxLevels == 4
\* longest source array of a direct merge call
MaxRun == 3
\* the quantized coordinates tried run densely from 0 up to this value
MaxLowCoordinate == 7
FracBits == 6

Q == 2 ^ FracBits

\* ------------------------------------------------------- program constants
RootParentID == -1
InvalidClusterID == -1
MAX_uint32 == -1
DefaultSplatsPerCluster == 128
DefaultMaxChildrenPerCluster == 8
MAX_FLT == 1000000
MortonBits == 21
DefaultLODReductionRatio == 4

\* ------------------------------------------------------------- arithmetic
Min(a, b) == IF a < b THEN a ELSE b
Max(a, b) == IF a > b THEN a ELSE b
Abs(a) == IF a < 0 THEN -a ELSE a

\* C++ integer division truncates toward zero
TruncDiv(a, b) ==
  IF (a >= 0) = (b > 0) THEN Abs(a) \div Abs(b) ELSE -(Abs(a) \div Abs(b))

\* a stand-in for DivideAndRoundUp that rounds toward zero
DivideAndRoundUp_Down(Dividend, Divisor) == TruncDiv(Dividend, Divisor)

\* FMath::DivideAndRoundUp(Dividend, Divisor) for Divisor # 0
DivideAndRoundUp(Dividend, Divisor) == TruncDiv(Dividend + Divisor - 1, Divisor)

\* Integer division by zero is undefined behaviour: the build either traps
\* (x86 idiv) or yields 0 (arm64 sdiv).
DivideOutcomes(Dividend, Divisor) ==
  IF Divisor = 0
  THEN {[Trap |-> TRUE, Quotient |-> 0], [Trap |-> FALSE, Quotient |-> 0]}
  ELSE {[Trap |-> FALSE, Quotient |-> DivideAndRoundUp(Dividend, Divisor)]}

\* unsigned comparison of two uint32 held as int32 bit patterns
ULess(a, b) == IF (a >= 0) = (b >= 0) THEN a < b ELSE b < 0
\* a stand-in for UMin that keeps the second argument
UMin_Second(a, b) == b
UMin(a, b) == IF ULess(a, b) THEN a ELSE b

RECURSIVE SqrtSearch(_, _, _)
SqrtSearch(n, lo, hi) ==
  IF hi - lo <= 1 THEN lo
  ELSE LET mid == (lo + hi) \div 2
       IN IF mid * mid <= n THEN SqrtSearch(n, mid, hi) ELSE SqrtSearch(n, lo, mid)

\* FMath::Sqrt on the fixed-point grid
Sqrt(n) == SqrtSearch(n, 0, Min(n + 1, 46340))

\* FVector3f::Dist
Dist(a, b) ==
  Sqrt((a[1] - b[1]) * (a[1] - b[1]) + (a[2] - b[2]) * (a[2] - b[2])
       + (a[3] - b[3]) * (a[3] - b[3]))

\* float product and quotient on the fixed-point grid, rounded down
FMul(a, b) == (a * b) \div Q
FDiv(a, b) == (a * Q) \div b
Clamp(x, lo, hi) == Max(lo, Min(hi, x))
\* x < SMALL_NUMBER: 1e-8 lies between 0 and the first grid value
BelowSmallNumber(x) == x < 1
\* GaussianSplattingConstants::SH_C0
SH_C0 == (282 * Q) \div 1000

RECURSIVE SeqSum(_)
SeqSum(s) == IF Len(s) = 0 THEN 0 ELSE s[1] + SeqSum(Tail(s))
RECURSIVE SeqMin(_)
SeqMin(s) == IF Len(s) = 1 THEN s[1] ELSE Min(s[1], SeqMin(Tail(s)))
RECURSIVE SeqMax(_)
SeqMax(s) == IF Len(s) = 1 THEN s[1] ELSE Max(s[1], SeqMax(Tail(s)))

\* ------------------------------------------------------------ cluster type
\* a stand-in for DefaultCluster that starts with one simplified primitive
DefaultCluster_LODCountOne ==
  [ ClusterID |-> InvalidClusterID, ParentClusterID |-> RootParentID,
    ChildClusterIDs |-> << >>, LODLevel |-> 0,
    BoundsMin |-> <<0, 0, 0>>, BoundsMax |-> <<0, 0, 0>>,
    BoundingSphereCenter |-> <<0, 0, 0>>, BoundingSphereRadius |-> 0,
    SplatStartIndex |-> 0, SplatCount |-> 0, MaxError |-> 0,
    LODSplatStartIndex |-> 0, LODSplatCount |-> 1 ]

\* FGaussianCluster with its default member initialisers
DefaultCluster ==
  [ ClusterID |-> InvalidClusterID, ParentClusterID |-> RootParentID,
    ChildClusterIDs |-> << >>, LODLevel |-> 0,
    BoundsMin |-> <<0, 0, 0>>, BoundsMax |-> <<0, 0, 0>>,
    BoundingSphereCenter |-> <<0, 0, 0>>, BoundingSphereRadius |-> 0,
    SplatStartIndex |-> 0, SplatCount |-> 0, MaxError |-> 0,
    LODSplatStartIndex |-> 0, LODSplatCount |-> 0 ]

IsLeaf(c) == Len(c.ChildClusterIDs) = 0
IsRoot(c) == c.ParentClusterID = RootParentID

ResetBounds(c) ==
  [c EXCEPT !.BoundsMin = <<MAX_FLT, MAX_FLT, MAX_FLT>>,
            !.BoundsMax = <<-MAX_FLT, -MAX_FLT, -MAX_FLT>>]

ExpandBoundsPoint(c, Point) ==
  [c EXCEPT !.BoundsMin = <<Min(c.BoundsMin[1], Point[1]), Min(c.BoundsMin[2], Point[2]),
                            Min(c.BoundsMin[3], Point[3])>>,
            !.BoundsMax = <<Max(c.BoundsMax[1], Point[1]), Max(c.BoundsMax[2], Point[2]),
                            Max(c.BoundsMax[3], Point[3])>>]

\* ExpandBounds(Other) folding in only the other cluster's min corner
ExpandBoundsCluster_MinOnly(c, Other) == ExpandBoundsPoint(c, Other.BoundsMin)

ExpandBoundsCluster(c, Other) ==
  ExpandBoundsPoint(ExpandBoundsPoint(c, Other.BoundsMin), Other.BoundsMax)

\* (BoundsMin + BoundsMax) * 0.5f, then the distance to the max corner
ComputeBoundingSphereFromAABB(c) ==
  LET Center == << (c.BoundsMin[1] + c.BoundsMax[1]) \div 2,
                   (c.BoundsMin[2] + c.BoundsMax[2]) \div 2,
                   (c.BoundsMin[3] + c.BoundsMax[3]) \div 2 >>
  IN [c EXCEPT !.BoundingSphereCenter = Center,
               !.BoundingSphereRadius = Dist(Center, c.BoundsMax)]

\* ---------------------------------------------------------- hierarchy type
\* FGaussianClusterHierarchy with its default member initialisers
FreshHierarchy ==
  [ Clusters |-> << >>, NumLODLevels |-> 0,
    SplatsPerCluster |-> DefaultSplatsPerCluster,
    RootClusterIndex |-> InvalidClusterID, NumLeafClusters |-> 0,
    TotalSplatCount |-> 0, LODSplats |-> << >>, TotalLODSplatCount |-> 0 ]

HierarchyIsValid(h) ==
  Len(h.Clusters) > 0 /\ h.RootClusterIndex # InvalidClusterID

\* Reset without Clusters.Empty()
HierarchyReset_KeepClusters(h) ==
  [h EXCEPT !.LODSplats = << >>, !.NumLODLevels = 0,
            !.RootClusterIndex = InvalidClusterID, !.NumLeafClusters = 0,
            !.TotalSplatCount = 0, !.TotalLODSplatCount = 0]

HierarchyReset(h) ==
  [h EXCEPT !.Clusters = << >>, !.LODSplats = << >>, !.NumLODLevels = 0,
            !.RootClusterIndex = InvalidClusterID, !.NumLeafClusters = 0,
            !.TotalSplatCount = 0, !.TotalLODSplatCount = 0]

\* ------------------------------------------------------------ Morton code
\* a uint64 as the set of its one-bits
BitsOf(n, w) == {i \in 0..(w - 1) : (n \div (2 ^ i)) % 2 = 1}
HexBits(d) ==
  {4 * (Len(d) - j) + i : <<j, i>> \in
     {ji \in (1..Len(d)) \X (0..3) : (d[ji[1]] \div (2 ^ ji[2])) % 2 = 1}}
ShiftLeft(S, k) == {b + k : b \in {x \in S : x + k <= 63}}

SetMax(S) == CHOOSE m \in S : \A x \in S : x <= m

RECURSIVE WordOf(_, _, _)
\* the value of bits [lo, lo + n) of a uint64
WordOf(S, lo, n) ==
  IF n = 0 THEN 0
  ELSE 2 * WordOf(S, lo + 1, n - 1) + (IF lo \in S THEN 1 ELSE 0)

\* a uint64 as its three 21-bit words and bit 63, most significant first
KeyOf(S) == << WordOf(S, 63, 1), WordOf(S, 42, 21), WordOf(S, 21, 21), WordOf(S, 0, 21) >>

\* a stand-in for KeyLess that compares the other way round
KeyLess_Greater(a, b) ==
  \E k \in 1..4 : a[k] > b[k] /\ \A j \in 1..(k - 1) : a[j] = b[j]

\* a < b on uint64
KeyLess(a, b) ==
  \E k \in 1..4 : a[k] < b[k] /\ \A j \in 1..(k - 1) : a[j] = b[j]

\* a stand-in for SplitBy3 without its last spreading step
SplitBy3_FourSteps(A) ==
  LET X0 == BitsOf(A, 31) \cap HexBits(<<1, 15, 15, 15, 15, 15>>)
      X1 == (X0 \cup ShiftLeft(X0, 32))
              \cap HexBits(<<1, 15, 0, 0, 0, 0, 0, 0, 0, 0, 15, 15, 15, 15>>)
      X2 == (X1 \cup ShiftLeft(X1, 16))
              \cap HexBits(<<1, 15, 0, 0, 0, 0, 15, 15, 0, 0, 0, 0, 15, 15>>)
      X3 == (X2 \cup ShiftLeft(X2, 8))
              \cap HexBits(<<1, 0, 0, 15, 0, 0, 15, 0, 0, 15, 0, 0, 15, 0, 0, 15>>)
      X4 == (X3 \cup ShiftLeft(X3, 4))
              \cap HexBits(<<1, 0, 12, 3, 0, 12, 3, 0, 12, 3, 0, 12, 3, 0, 12, 3>>)
  IN X4

\* the SplitBy3 lambda of EncodeMorton3D
SplitBy3(A) ==
  LET X0 == BitsOf(A, 31) \cap HexBits(<<1, 15, 15, 15, 15, 15>>)
      X1 == (X0 \cup ShiftLeft(X0, 32))
              \cap HexBits(<<1, 15, 0, 0, 0, 0, 0, 0, 0, 0, 15, 15, 15, 15>>)
      X2 == (X1 \cup ShiftLeft(X1, 16))
              \cap HexBits(<<1, 15, 0, 0, 0, 0, 15, 15, 0, 0, 0, 0, 15, 15>>)
      X3 == (X2 \cup ShiftLeft(X2, 8))
              \cap HexBits(<<1, 0, 0, 15, 0, 0, 15, 0, 0, 15, 0, 0, 15, 0, 0, 15>>)
      X4 == (X3 \cup ShiftLeft(X3, 4))
              \cap HexBits(<<1, 0, 12, 3, 0, 12, 3, 0, 12, 3, 0, 12, 3, 0, 12, 3>>)
      X5 == (X4 \cup ShiftLeft(X4, 2))
              \cap HexBits(<<1, 2, 4, 9, 2, 4, 9, 2, 4, 9, 2, 4, 9, 2, 4, 9>>)
  IN X5

\* SplitBy3(X) | (SplitBy3(Y) << 1) | (SplitBy3(Z) << 2), as a set of bits
InterleaveBits(X, Y, Z) ==
  SplitBy3(X) \cup ShiftLeft(SplitBy3(Y), 1) \cup ShiftLeft(SplitBy3(Z), 2)

\* Clamp(static_cast<uint32>(Normalized * MaxVal), 0u, MaxVal) on one axis;
\* a zero extent divides 0 by SMALL_NUMBER, which is 0
QuantizeAxis(p, lo, hi) ==
  LET MaxVal == (2 ^ MortonBits) - 1
  IN IF hi = lo THEN 0
     ELSE Max(0, Min(MaxVal, ((p - lo) * MaxVal) \div (hi - lo)))

EncodeMorton3D(Position, BoundsMin, BoundsMax) ==
  LET X == QuantizeAxis(Position[1], BoundsMin[1], BoundsMax[1])
      Y == QuantizeAxis(Position[2], BoundsMin[2], BoundsMax[2])
      Z == QuantizeAxis(Position[3], BoundsMin[3], BoundsMax[3])
  IN KeyOf(InterleaveBits(X, Y, Z))

\* ------------------------------------------------------------------ sort
RECURSIVE BoxOf(_, _)
\* FBox += every position, from FBox(ForceInit)
BoxOf(Splats, n) ==
  IF n = 1 THEN [Min |-> Splats[1].Position, Max |-> Splats[1].Position]
  ELSE LET b == BoxOf(Splats, n - 1)
           p == Splats[n].Position
       IN [Min |-> <<Min(b.Min[1], p[1]), Min(b.Min[2], p[2]), Min(b.Min[3], p[3])>>,
           Max |-> <<Max(b.Max[1], p[1]), Max(b.Max[2], p[2]), Max(b.Max[3], p[3])>>]

CalculateGlobalBounds(Splats) ==
  LET b == BoxOf(Splats, Len(Splats))
  IN IF b.Min = b.Max
     THEN [Min |-> <<b.Min[1] - Q, b.Min[2] - Q, b.Min[3] - Q>>,
           Max |-> <<b.Max[1] + Q, b.Max[2] + Q, b.Max[3] + Q>>]
     ELSE b

RECURSIVE MortonCodesTo(_, _, _)
MortonCodesTo(Splats, GlobalBounds, n) ==
  IF n = 0 THEN << >>
  ELSE Append(MortonCodesTo(Splats, GlobalBounds, n - 1),
              EncodeMorton3D(Splats[n].Position, GlobalBounds.Min, GlobalBounds.Max))

\* SortEntries[i].MortonCode for every splat
MortonCodes(Splats, GlobalBounds) == MortonCodesTo(Splats, GlobalBounds, Len(Splats))

RECURSIVE SortedOrders_FirstAny(_, _)
\* a stand-in for SortedOrders that puts any entry first and sorts the rest
SortedOrders_FirstAny(Codes, Remaining) ==
  IF Remaining = {} THEN { << >> }
  ELSE UNION { { <<i - 1>> \o rest : rest \in SortedOrders_FirstAny(Codes, Remaining \ {i}) } :
               i \in {m \in Remaining :
                        \/ Cardinality(Remaining) = Len(Codes)
                        \/ \A o \in Remaining : ~KeyLess(Codes[o], Codes[m])} }

RECURSIVE SortedOrders(_, _)
\* every order SortEntries.Sort() can leave: ascending MortonCode, entries
\* with equal codes in any relative order (the sort is not stable).
\* Entries are the 0-based OriginalIndex values.
SortedOrders(Codes, Remaining) ==
  IF Remaining = {} THEN { << >> }
  ELSE UNION { { <<i - 1>> \o rest : rest \in SortedOrders(Codes, Remaining \ {i}) } :
               i \in {m \in Remaining : \A o \in Remaining : ~KeyLess(Codes[o], Codes[m])} }

\* --------------------------------------------------------- leaf clusters
RECURSIVE ExpandOverSplats(_, _, _, _)
\* the loop of CalculateClusterBounds: i runs from SplatStartIndex while
\* i < EndIndex && i < Splats.Num(), both compared as uint32
ExpandOverSplats(c, Splats, i, EndIndex) ==
  IF ULess(i, EndIndex) /\ ULess(i, Len(Splats))
  THEN ExpandOverSplats(ExpandBoundsPoint(c, Splats[i + 1].Position), Splats, i + 1, EndIndex)
  ELSE c

CalculateClusterBounds(c, Splats) ==
  ComputeBoundingSphereFromAABB(
    ExpandOverSplats(ResetBounds(c), Splats, c.SplatStartIndex,
                     c.SplatStartIndex + c.SplatCount))

\* CreateLeafClusters without the Min that shortens the last leaf
CreateLeafClusters_NoClamp(Splats, SplatsPerCluster, NumClusters) ==
  [k \in 1..Max(NumClusters, 0) |->
     CalculateClusterBounds(
       [DefaultCluster EXCEPT
          !.ClusterID = k - 1,
          !.SplatStartIndex = (k - 1) * SplatsPerCluster,
          !.SplatCount = SplatsPerCluster],
       Splats)]

\* CreateLeafClusters after NumClusters has been computed
CreateLeafClusters(Splats, SplatsPerCluster, NumClusters) ==
  [k \in 1..Max(NumClusters, 0) |->
     LET ClusterIdx == k - 1
         Start == ClusterIdx * SplatsPerCluster
     IN CalculateClusterBounds(
          [DefaultCluster EXCEPT
             !.ClusterID = ClusterIdx,
             !.ParentClusterID = RootParentID,
             !.LODLevel = 0,
             !.SplatStartIndex = Start,
             !.SplatCount = Min(SplatsPerCluster, Len(Splats) - Start),
             !.MaxError = 0],
          Splats)]

\* --------------------------------------------------------- parent levels
\* [ChildStartIdx, ChildEndIdx) of the parent with 0-based index ParentIdx
ChildStart(ParentIdx, MaxChildrenPerCluster) == ParentIdx * MaxChildrenPerCluster
\* a stand-in for ChildEnd that ends every group one child late
ChildEnd_OneMore(ParentIdx, MaxChildrenPerCluster, NumChildren) ==
  Min(ParentIdx * MaxChildrenPerCluster + MaxChildrenPerCluster + 1, NumChildren)
ChildEnd(ParentIdx, MaxChildrenPerCluster, NumChildren) ==
  Min(ChildStart(ParentIdx, MaxChildrenPerCluster) + MaxChildrenPerCluster, NumChildren)

RECURSIVE AssignChildren(_, _, _, _)
\* the inner loop of BuildParentLevel over ChildIdx; acc carries Parent,
\* TotalSplatCount and MinSplatStartIndex
AssignChildren(acc, ChildClusters, ChildIdx, ChildEndIdx) ==
  IF ChildIdx < ChildEndIdx
  THEN LET Child == ChildClusters[ChildIdx + 1]
       IN AssignChildren(
            [Parent |-> ExpandBoundsCluster(
                          [acc.Parent EXCEPT
                             !.ChildClusterIDs = Append(@, Child.ClusterID)], Child),
             TotalSplatCount |-> acc.TotalSplatCount + Child.SplatCount,
             MinSplatStartIndex |-> UMin(acc.MinSplatStartIndex, Child.SplatStartIndex)],
            ChildClusters, ChildIdx + 1, ChildEndIdx)
  ELSE acc

\* MakeParent storing the number of children where the splat total belongs
MakeParent_ChildCount(ChildClusters, MaxChildrenPerCluster, ParentLODLevel, ClusterID, ParentIdx) ==
  LET acc == AssignChildren(
               [Parent |-> ResetBounds([DefaultCluster EXCEPT
                                          !.ClusterID = ClusterID,
                                          !.LODLevel = ParentLODLevel]),
                TotalSplatCount |-> 0,
                MinSplatStartIndex |-> MAX_uint32],
               ChildClusters,
               ChildStart(ParentIdx, MaxChildrenPerCluster),
               ChildEnd(ParentIdx, MaxChildrenPerCluster, Len(ChildClusters)))
  IN ComputeBoundingSphereFromAABB(
       [acc.Parent EXCEPT !.SplatCount = Len(acc.Parent.ChildClusterIDs),
                          !.SplatStartIndex = acc.MinSplatStartIndex])

\* one pass of the outer loop of BuildParentLevel
MakeParent(ChildClusters, MaxChildrenPerCluster, ParentLODLevel, ClusterID, ParentIdx) ==
  LET acc == AssignChildren(
               [Parent |-> ResetBounds([DefaultCluster EXCEPT
                                          !.ClusterID = ClusterID,
                                          !.ParentClusterID = RootParentID,
                                          !.LODLevel = ParentLODLevel]),
                TotalSplatCount |-> 0,
                MinSplatStartIndex |-> MAX_uint32],
               ChildClusters,
               ChildStart(ParentIdx, MaxChildrenPerCluster),
               ChildEnd(ParentIdx, MaxChildrenPerCluster, Len(ChildClusters)))
  IN ComputeBoundingSphereFromAABB(
       [acc.Parent EXCEPT !.SplatCount = acc.TotalSplatCount,
                          !.SplatStartIndex = acc.MinSplatStartIndex])

\* a stand-in for ParentClusters that gives every parent of a level one ID
ParentClusters_SameID(ChildClusters, MaxChildrenPerCluster, ParentLODLevel, NextID, NumParents) ==
  [k \in 1..Max(NumParents, 0) |->
     MakeParent(ChildClusters, MaxChildrenPerCluster, ParentLODLevel, NextID, k - 1)]

\* OutParentClusters of BuildParentLevel after NumParents has been computed
ParentClusters(ChildClusters, MaxChildrenPerCluster, ParentLODLevel, NextID, NumParents) ==
  [k \in 1..Max(NumParents, 0) |->
     MakeParent(ChildClusters, MaxChildrenPerCluster, ParentLODLevel, NextID + (k - 1), k - 1)]

\* ChildClusters as BuildParentLevel leaves them: Child.ParentClusterID is
\* the ID of the (last) parent whose child range holds the child
UpdatedChildren(ChildClusters, MaxChildrenPerCluster, NextID, NumParents) ==
  [j \in 1..Len(ChildClusters) |->
     LET Owners == {p \in 0..(NumParents - 1) :
                      /\ ChildStart(p, MaxChildrenPerCluster) <= j - 1
                      /\ j - 1 < ChildEnd(p, MaxChildrenPerCluster, Len(ChildClusters))}
     IN IF Owners = {} THEN ChildClusters[j]
        ELSE [ChildClusters[j] EXCEPT !.ParentClusterID = NextID + SetMax(Owners)]]

\* index of the first cluster carrying the ID, 0 when there is none
FindFirstByID(Clusters, ID) ==
  IF \E i \in 1..Len(Clusters) : Clusters[i].ClusterID = ID
  THEN CHOOSE i \in 1..Len(Clusters) :
         /\ Clusters[i].ClusterID = ID
         /\ \A j \in 1..(i - 1) : Clusters[j].ClusterID # ID
  ELSE 0

\* FGaussianClusterHierarchy::FindClusterByID: the 1-based index of the
\* cluster returned, 0 for nullptr
FindClusterByID(h, ClusterID) == FindFirstByID(h.Clusters, ClusterID)

\* the copy-back loop left out: AllClusters keeps its old copies
CopyParentIDs_None(Stored, Updated, k) == Stored

RECURSIVE CopyParentIDs(_, _, _)
\* the copy-back loop of BuildClusterHierarchy: for each updated child, the
\* first stored cluster with its ID takes its ParentClusterID
CopyParentIDs(Stored, Updated, k) ==
  IF k > Len(Updated) THEN Stored
  ELSE LET i == FindFirstByID(Stored, Updated[k].ClusterID)
       IN CopyParentIDs(
            IF i = 0 THEN Stored
            ELSE [Stored EXCEPT ![i].ParentClusterID = Updated[k].ParentClusterID],
            Updated, k + 1)

\* ------------------------------------------------------------ error pass
RECURSIVE ChildErrorMax_NoChildError(_, _, _, _)
\* the loop of CalculateClusterError without TotalDistance += Child.MaxError
ChildErrorMax_NoChildError(ParentCluster, Clusters, k, MaxErr) ==
  IF k > Len(ParentCluster.ChildClusterIDs) THEN MaxErr
  ELSE LET i == FindFirstByID(Clusters, ParentCluster.ChildClusterIDs[k])
       IN ChildErrorMax_NoChildError(ParentCluster, Clusters, k + 1,
            IF i = 0 THEN MaxErr
            ELSE Max(MaxErr,
                     Dist(ParentCluster.BoundingSphereCenter, Clusters[i].BoundingSphereCenter)
                       + Clusters[i].BoundingSphereRadius))

RECURSIVE ChildErrorMax(_, _, _, _)
\* the loop of CalculateClusterError over ChildClusterIDs
ChildErrorMax(ParentCluster, Clusters, k, MaxErr) ==
  IF k > Len(ParentCluster.ChildClusterIDs) THEN MaxErr
  ELSE LET i == FindFirstByID(Clusters, ParentCluster.ChildClusterIDs[k])
       IN ChildErrorMax(ParentCluster, Clusters, k + 1,
            IF i = 0 THEN MaxErr
            ELSE Max(MaxErr,
                     Dist(ParentCluster.BoundingSphereCenter, Clusters[i].BoundingSphereCenter)
                       + Clusters[i].BoundingSphereRadius + Clusters[i].MaxError))

\* the MaxError CalculateClusterError stores in ParentCluster
CalculateClusterError(ParentCluster, Clusters) ==
  Max(0, ChildErrorMax(ParentCluster, Clusters, 1, 0) - ParentCluster.BoundingSphereRadius)

\* 1-based indices of the non-leaf clusters the error loop has still to visit
PendingErrors(Clusters, Visited) ==
  {i \in (Visited + 1)..Len(Clusters) : ~IsLeaf(Clusters[i])}

SetMin(S) == CHOOSE m \in S : \A x \in S : m <= x

\* ------------------------------------------------------------- LOD splats
\* FGaussianLODSplat with its default member initialisers
DefaultLODSplat ==
  [ Position |-> <<0, 0, 0>>, Rotation |-> "Identity", Scale |-> <<Q, Q, Q>>,
    Opacity |-> Q, Color |-> <<Q, Q, Q>> ]

\* GaussianSplattingUtils::SHDCToColor
SHDCToColor(SHDC) ==
  << Q \div 2 + FMul(SH_C0, SHDC[1]), Q \div 2 + FMul(SH_C0, SHDC[2]),
     Q \div 2 + FMul(SH_C0, SHDC[3]) >>

\* TotalWeight of a run (lines 368-377, 454-463): the opacity sum, or 1.0
\* when that sum is below SMALL_NUMBER
TotalWeight(Run) ==
  LET Sum == SeqSum([i \in 1..Len(Run) |-> Run[i].Opacity])
  IN IF BelowSmallNumber(Sum) THEN Q ELSE Sum

\* Weight of every element of a run (lines 386, 407, 475)
MergeWeights(Run) ==
  LET Total == TotalWeight(Run)
  IN [i \in 1..Len(Run) |-> FDiv(Run[i].Opacity, Total)]

RECURSIVE CombinedTransparency(_, _)
\* CombinedTransparency after the first n elements (lines 429-433, 499-503)
CombinedTransparency(Run, n) ==
  IF n = 0 THEN Q
  ELSE FMul(CombinedTransparency(Run, n - 1), Q - Clamp(Run[n].Opacity, 0, Q))

\* a stand-in for CombinedOpacity that adds the opacities up
CombinedOpacity_Sum(Run) ==
  Clamp(SeqSum([i \in 1..Len(Run) |-> Clamp(Run[i].Opacity, 0, Q)]), 0, Q)

\* Result.Opacity (lines 434, 504)
CombinedOpacity(Run) == Clamp(Q - CombinedTransparency(Run, Len(Run)), 0, Q)

\* the body MergeGaussians and MergeLODSplats share once the run is cut out:
\* Run is a sequence of [Position, Scale, Opacity, Color]
MergeRun(Run) ==
  LET Count == Len(Run)
      Weight == MergeWeights(Run)
      Weighted(F(_), a) == SeqSum([i \in 1..Count |-> FMul(F(Run[i])[a], Weight[i])])
      Pos(r) == r.Position
      Col(r) == r.Color
      Scl(r) == r.Scale
      Spread(a) == (SeqMax([i \in 1..Count |-> Run[i].Position[a]])
                      - SeqMin([i \in 1..Count |-> Run[i].Position[a]])) \div 2
  IN [ Position |-> <<Weighted(Pos, 1), Weighted(Pos, 2), Weighted(Pos, 3)>>,
       Rotation |-> "Identity",
       Scale |-> << Weighted(Scl, 1) + Spread(1) \div 2, Weighted(Scl, 2) + Spread(2) \div 2,
                    Weighted(Scl, 3) + Spread(3) \div 2 >>,
       Opacity |-> CombinedOpacity(Run),
       Color |-> <<Weighted(Col, 1), Weighted(Col, 2), Weighted(Col, 3)>> ]

\* StartIndex is 0-based
MergeGaussians(Splats, StartIndex, Count) ==
  IF Count <= 0 \/ StartIndex < 0 \/ StartIndex >= Len(Splats) THEN DefaultLODSplat
  ELSE LET Clamped == Min(Count, Len(Splats) - StartIndex)
       IN MergeRun([i \in 1..Clamped |->
                      [ Position |-> Splats[StartIndex + i].Position,
                        Scale |-> Splats[StartIndex + i].Scale,
                        Opacity |-> Splats[StartIndex + i].Opacity,
                        Color |-> SHDCToColor(Splats[StartIndex + i].SH_DC) ]])

MergeLODSplats(LODSplats, StartIndex, Count) ==
  IF Count <= 0 \/ StartIndex < 0 \/ StartIndex >= Len(LODSplats) THEN DefaultLODSplat
  ELSE LET Clamped == Min(Count, Len(LODSplats) - StartIndex)
       IN MergeRun([i \in 1..Clamped |->
                      [ Position |-> LODSplats[StartIndex + i].Position,
                        Scale |-> LODSplats[StartIndex + i].Scale,
                        Opacity |-> LODSplats[StartIndex + i].Opacity,
                        Color |-> LODSplats[StartIndex + i].Color ]])

\* a stand-in for MergeReads without the early return and the clamp
MergeReads_Unchecked(Num, StartIndex, Count) ==
  {StartIndex + i : i \in 0..(Count - 1)}

\* the 0-based indices of the source array that the loops of MergeGaussians
\* (lines 359-365, 369-433) or MergeLODSplats (446-451, 455-503) read
MergeReads(Num, StartIndex, Count) ==
  IF Count <= 0 \/ StartIndex < 0 \/ StartIndex >= Num THEN {}
  ELSE {StartIndex + i : i \in 0..(Min(Count, Num - StartIndex) - 1)}

\* the merge loop of GenerateLODSplats for a level-1 cluster: one merged
\* splat for every i < NumLODSplats whose SrcCount is positive
RECURSIVE MergedFromSplats(_, _, _, _, _)
MergedFromSplats(Splats, c, ReductionRatio, i, NumLODSplats) ==
  IF i >= NumLODSplats THEN << >>
  ELSE LET SrcStart == c.SplatStartIndex + i * ReductionRatio
           SrcCount == Min(ReductionRatio, (c.SplatStartIndex + c.SplatCount) - SrcStart)
       IN (IF SrcCount > 0 THEN <<MergeGaussians(Splats, SrcStart, SrcCount)>> ELSE << >>)
            \o MergedFromSplats(Splats, c, ReductionRatio, i + 1, NumLODSplats)

\* the same loop for a higher level, over the gathered ChildLODSplats
RECURSIVE MergedFromLODSplats(_, _, _, _)
MergedFromLODSplats(ChildLODSplats, ReductionRatio, i, NumLODSplats) ==
  IF i >= NumLODSplats THEN << >>
  ELSE LET SrcStart == i * ReductionRatio
           SrcCount == Min(ReductionRatio, Len(ChildLODSplats) - SrcStart)
       IN (IF SrcCount > 0 THEN <<MergeLODSplats(ChildLODSplats, SrcStart, SrcCount)>>
           ELSE << >>)
            \o MergedFromLODSplats(ChildLODSplats, ReductionRatio, i + 1, NumLODSplats)

\* index of the first cluster with the ID and LODSplatCount > 0, 0 if none
FindFirstWithLOD(Clusters, ID) ==
  LET Hits == {i \in 1..Len(Clusters) :
                 Clusters[i].ClusterID = ID /\ Clusters[i].LODSplatCount > 0}
  IN IF Hits = {} THEN 0 ELSE CHOOSE i \in Hits : \A j \in Hits : i <= j

\* the LOD splats of one child that the gather loop copies
ChildRange(Hierarchy, Child) ==
  LET Kept == {j \in 0..(Child.LODSplatCount - 1) :
                 ULess(Child.LODSplatStartIndex + j, Len(Hierarchy.LODSplats))}
  IN [n \in 1..Cardinality(Kept) |->
        Hierarchy.LODSplats[Child.LODSplatStartIndex
                              + (CHOOSE j \in Kept : Cardinality({x \in Kept : x < j}) = n - 1)
                              + 1]]

\* a stand-in for GatherChildLODSplats that stops after the first child
GatherChildLODSplats_FirstOnly(Hierarchy, ChildClusterIDs, k) ==
  IF k > Len(ChildClusterIDs) THEN << >>
  ELSE LET i == FindFirstWithLOD(Hierarchy.Clusters, ChildClusterIDs[k])
       IN IF i = 0 THEN << >> ELSE ChildRange(Hierarchy, Hierarchy.Clusters[i])

RECURSIVE GatherChildLODSplats(_, _, _)
\* ChildLODSplats of GenerateLODSplats, children taken in child-list order
GatherChildLODSplats(Hierarchy, ChildClusterIDs, k) ==
  IF k > Len(ChildClusterIDs) THEN << >>
  ELSE LET i == FindFirstWithLOD(Hierarchy.Clusters, ChildClusterIDs[k])
       IN (IF i = 0 THEN << >> ELSE ChildRange(Hierarchy, Hierarchy.Clusters[i]))
            \o GatherChildLODSplats(Hierarchy, ChildClusterIDs, k + 1)

\* a stand-in for NewLODSplats whose group count rounds down
NewLODSplats_RoundDown(Splats, Hierarchy, ReductionRatio, ci) ==
  LET c == Hierarchy.Clusters[ci]
  IN IF c.LODLevel = 1
     THEN MergedFromSplats(Splats, c, ReductionRatio, 0,
                           Max(1, TruncDiv(c.SplatCount, ReductionRatio)))
     ELSE LET ChildLODSplats == GatherChildLODSplats(Hierarchy, c.ChildClusterIDs, 1)
          IN IF Len(ChildLODSplats) > 0
             THEN MergedFromLODSplats(ChildLODSplats, ReductionRatio, 0,
                    Max(1, TruncDiv(Len(ChildLODSplats), ReductionRatio)))
             ELSE << >>

\* the splats GenerateLODSplats appends for the cluster at 1-based index ci
NewLODSplats(Splats, Hierarchy, ReductionRatio, ci) ==
  LET c == Hierarchy.Clusters[ci]
  IN IF c.LODLevel = 1
     THEN MergedFromSplats(Splats, c, ReductionRatio, 0,
                           Max(1, DivideAndRoundUp(c.SplatCount, ReductionRatio)))
     ELSE LET ChildLODSplats == GatherChildLODSplats(Hierarchy, c.ChildClusterIDs, 1)
          IN IF Len(ChildLODSplats) > 0
             THEN MergedFromLODSplats(ChildLODSplats, ReductionRatio, 0,
                    Max(1, DivideAndRoundUp(Len(ChildLODSplats), ReductionRatio)))
             ELSE << >>

\* a stand-in for GenerateClusterLOD that never sets LODSplatStartIndex
GenerateClusterLOD_NoStart(Splats, Hierarchy, ReductionRatio, ci, NextIndex) ==
  LET c == Hierarchy.Clusters[ci]
      Added == NewLODSplats(Splats, Hierarchy, ReductionRatio, ci)
      Counted == c.LODLevel = 1 \/ Len(Added) > 0
  IN [Hierarchy EXCEPT
        !.LODSplats = @ \o Added,
        !.Clusters[ci].LODSplatCount =
           IF Counted THEN (NextIndex + Len(Added)) - NextIndex ELSE @]

\* one pass of the inner loop body of GenerateLODSplats, for a cluster whose
\* LODLevel is the level being processed
GenerateClusterLOD(Splats, Hierarchy, ReductionRatio, ci, NextIndex) ==
  LET c == Hierarchy.Clusters[ci]
      Added == NewLODSplats(Splats, Hierarchy, ReductionRatio, ci)
      Counted == c.LODLevel = 1 \/ Len(Added) > 0
  IN [Hierarchy EXCEPT
        !.LODSplats = @ \o Added,
        !.Clusters[ci].LODSplatStartIndex = NextIndex,
        !.Clusters[ci].LODSplatCount =
           IF Counted THEN (NextIndex + Len(Added)) - NextIndex ELSE @]

\* a stand-in for EffectiveReductionRatio that falls back to 1
EffectiveReductionRatio_One(ReductionRatio) ==
  IF ReductionRatio < 1 THEN 1 ELSE ReductionRatio

\* lines 514-517 of GenerateLODSplats
EffectiveReductionRatio(ReductionRatio) ==
  IF ReductionRatio < 1 THEN DefaultLODReductionRatio ELSE ReductionRatio

\* a stand-in for LODMergeCalls without the FMath::Min on SrcCount
LODMergeCalls_NoEndClamp(Splats, Hierarchy, ReductionRatio, ci) ==
  LET c == Hierarchy.Clusters[ci]
      ChildLODSplats == GatherChildLODSplats(Hierarchy, c.ChildClusterIDs, 1)
  IN IF c.LODLevel = 1
     THEN {[Num |-> Len(Splats), StartIndex |-> c.SplatStartIndex + i * ReductionRatio,
            Count |-> ReductionRatio] :
             i \in 0..(Max(1, DivideAndRoundUp(c.SplatCount, ReductionRatio)) - 1)}
     ELSE IF Len(ChildLODSplats) > 0
     THEN {[Num |-> Len(ChildLODSplats), StartIndex |-> i * ReductionRatio,
            Count |-> ReductionRatio] :
             i \in 0..(Max(1, DivideAndRoundUp(Len(ChildLODSplats), ReductionRatio)) - 1)}
     ELSE {}

\* the MergeGaussians (lines 543-555) or MergeLODSplats (588-599) calls that
\* GenerateLODSplats issues for the cluster at 1-based index ci: the length
\* of the source array, StartIndex and Count of each
LODMergeCalls(Splats, Hierarchy, ReductionRatio, ci) ==
  LET c == Hierarchy.Clusters[ci]
      ChildLODSplats == GatherChildLODSplats(Hierarchy, c.ChildClusterIDs, 1)
      SplatCalls ==
        {[Num |-> Len(Splats), StartIndex |-> c.SplatStartIndex + i * ReductionRatio,
          Count |-> Min(ReductionRatio,
                        (c.SplatStartIndex + c.SplatCount)
                          - (c.SplatStartIndex + i * ReductionRatio))] :
           i \in 0..(Max(1, DivideAndRoundUp(c.SplatCount, ReductionRatio)) - 1)}
      LODCalls ==
        {[Num |-> Len(ChildLODSplats), StartIndex |-> i * ReductionRatio,
          Count |-> Min(ReductionRatio, Len(ChildLODSplats) - i * ReductionRatio)] :
           i \in 0..(Max(1, DivideAndRoundUp(Len(ChildLODSplats), ReductionRatio)) - 1)}
  IN IF c.LODLevel = 1 THEN {m \in SplatCalls : m.Count > 0}
     ELSE IF Len(ChildLODSplats) > 0 THEN {m \in LODCalls : m.Count > 0}
     ELSE {}

\* every LODIndex that the gather loop (lines 564-581) computes for the
\* cluster at index ci, before the test against LODSplats.Num()
ChildLODIndices(Hierarchy, ci) ==
  UNION { LET i == FindFirstWithLOD(Hierarchy.Clusters, Hierarchy.Clusters[ci].ChildClusterIDs[k])
          IN IF i = 0 THEN {}
             ELSE {Hierarchy.Clusters[i].LODSplatStartIndex + j :
                     j \in 0..(Hierarchy.Clusters[i].LODSplatCount - 1)} :
          k \in 1..Len(Hierarchy.Clusters[ci].ChildClusterIDs) }

\* the (LODLevel, cluster index) pairs the two loops have still to process,
\* given the level in progress and the clusters already passed in it
PendingLOD(Hierarchy, Level, Visited) ==
  {lc \in (Level..Hierarchy.NumLODLevels) \X (1..Len(Hierarchy.Clusters)) :
     /\ Hierarchy.Clusters[lc[2]].LODLevel = lc[1]
     /\ lc[1] > Level \/ lc[2] > Visited}

\* the pair the loops reach first
FirstPendingLOD(S) ==
  CHOOSE lc \in S : \A o \in S : lc[1] < o[1] \/ (lc[1] = o[1] /\ lc[2] <= o[2])

\* ---------------------------------------------------------------- inputs
\* position in grid units, opacity and scale in halves
Splat(x, y, z, o, s) ==
  [ Position |-> <<x * Q, y * Q, z * Q>>,
    Scale |-> <<s * (Q \div 2), s * (Q \div 2), Q>>,
    Opacity |-> o * (Q \div 2),
    SH_DC |-> <<Q, 0, x * Q>> ]

\* two thin columns below a flat bar: already in Morton order
SceneCross ==
  << Splat(1, 0, 0, 2, 1), Splat(3, 0, 0, 2, 1), Splat(1, 4, 0, 1, 2), Splat(3, 4, 0, 1, 2),
     Splat(0, 2, 1, 0, 1), Splat(4, 2, 1, 0, 3), Splat(2, 4, 1, 2, 2) >>
\* not in Morton order
SceneShuffled ==
  << Splat(4, 4, 1, 1, 1), Splat(0, 0, 0, 1, 2), Splat(3, 1, 0, 2, 1), Splat(0, 4, 1, 0, 1),
     Splat(1, 3, 0, 1, 3), Splat(4, 0, 0, 1, 1), Splat(2, 2, 0, 2, 2) >>
\* coincident positions: degenerate bounds and equal Morton codes
SceneCoincident ==
  << Splat(2, 2, 2, 2, 1), Splat(2, 2, 2, 2, 1), Splat(0, 1, 0, 1, 2), Splat(2, 2, 2, 0, 2),
     Splat(4, 0, 3, 1, 1), Splat(1, 1, 1, 2, 3), Splat(0, 1, 0, 1, 2) >>
Scenes == {SceneCross, SceneShuffled, SceneCoincident}

\* the arrays a caller passes: the first n splats of a scene
InputArrays ==
  {SubSeq(sc, 1, n) : <<sc, n>> \in
     {p \in Scenes \X (0..MaxSplats) : p[2] <= Len(p[1])}}

\* the LODReductionRatio values tried when LOD generation is on
LODRatios == {0, 2, 4}

\* FBuildSettings; with bGenerateLOD off the ratio is never read and keeps
\* its default
SettingsSet ==
  [ SplatsPerCluster : (1 - MaxBelowOne)..MaxLeafSize,
    MaxChildrenPerCluster : (1 - MaxBelowOne)..MaxChildren,
    bReorderSplats : BOOLEAN,
    bGenerateLOD : {TRUE},
    LODReductionRatio : LODRatios ]
  \cup
  [ SplatsPerCluster : (1 - MaxBelowOne)..MaxLeafSize,
    MaxChildrenPerCluster : (1 - MaxBelowOne)..MaxChildren,
    bReorderSplats : BOOLEAN,
    bGenerateLOD : {FALSE},
    LODReductionRatio : {DefaultLODReductionRatio} ]

\* ----------------------------------------------------------------- state
VARIABLES
  pc,               \* position inside (or outside) BuildClusterHierarchy
  InOutSplats,      \* the caller's splat array
  Settings,         \* the FBuildSettings of the call
  OutHierarchy,     \* the caller's FGaussianClusterHierarchy
  Result,           \* "none" while running, then the returned bool
  SortedIndices,    \* local of BuildClusterHierarchy
  CurrentLevel,     \* local
  AllClusters,      \* local
  CurrentLODLevel,  \* local
  NextClusterID,    \* local
  ErrorsVisited,    \* number of AllClusters entries the error loop has passed
  LODLevel,         \* loop variable of GenerateLODSplats
  LODVisited,       \* number of clusters its inner loop has passed at LODLevel
  NextLODSplatIndex,\* local of GenerateLODSplats
  CallInput,        \* the splat array as the caller passed it to the call
  Previous,         \* what the caller's previous call was given and returned
  MergeCall,        \* the arguments of a direct call of a merge function
  MergeReturn,      \* what that call returned
  MergeRead,        \* the source indices that call read
  MortonInput,      \* the quantized coordinates of a direct bit interleave
  MortonKey         \* the key it gave, as its set of one-bits

callHistory == << CallInput, Previous >>
mergeVars == << MergeCall, MergeReturn, MergeRead >>
mortonVars == << MortonInput, MortonKey >>

vars == << pc, InOutSplats, Settings, OutHierarchy, Result, SortedIndices,
           CurrentLevel, AllClusters, CurrentLODLevel, NextClusterID, ErrorsVisited,
           LODLevel, LODVisited, NextLODSplatIndex, callHistory, mergeVars, mortonVars >>

buildLocals == << SortedIndices, CurrentLevel, AllClusters, CurrentLODLevel,
                  NextClusterID, ErrorsVisited >>
lodLocals == << LODLevel, LODVisited, NextLODSplatIndex >>
locals == << buildLocals, lodLocals >>

NoLocals ==
  /\ SortedIndices' = << >>
  /\ CurrentLevel' = << >>
  /\ AllClusters' = << >>
  /\ CurrentLODLevel' = 0
  /\ NextClusterID' = 0
  /\ ErrorsVisited' = 0
  /\ LODLevel' = 0
  /\ LODVisited' = 0
  /\ NextLODSplatIndex' = 0

\* no call made
NoCall == [Made |-> FALSE]

Init ==
  /\ pc = "Entry"
  /\ InOutSplats \in InputArrays
  /\ Settings \in SettingsSet
  /\ OutHierarchy = FreshHierarchy
  /\ Result = "none"
  /\ SortedIndices = << >>
  /\ CurrentLevel = << >>
  /\ AllClusters = << >>
  /\ CurrentLODLevel = 0
  /\ NextClusterID = 0
  /\ ErrorsVisited = 0
  /\ LODLevel = 0
  /\ LODVisited = 0
  /\ NextLODSplatIndex = 0
  /\ CallInput = InOutSplats
  /\ Previous = NoCall
  /\ MergeCall = NoCall
  /\ MergeReturn = NoCall
  /\ MergeRead = {}
  /\ MortonInput = NoCall
  /\ MortonKey = NoCall

\* ---------------------------------------------------------------- actions
\* lines 10-18: Reset, no splats, return false
EnterEmpty ==
  /\ pc = "Entry"
  /\ Len(InOutSplats) = 0
  /\ OutHierarchy' = HierarchyReset(OutHierarchy)
  /\ Result' = "false"
  /\ pc' = "Done"
  /\ UNCHANGED << InOutSplats, Settings, locals >>
  /\ UNCHANGED << callHistory, mergeVars, mortonVars >>

\* lines 10-24: Reset, then the settings and the splat count are stored
Enter ==
  /\ pc = "Entry"
  /\ Len(InOutSplats) # 0
  /\ OutHierarchy' = [HierarchyReset(OutHierarchy) EXCEPT
                        !.SplatsPerCluster = Settings.SplatsPerCluster,
                        !.TotalSplatCount = Len(InOutSplats)]
  /\ pc' = "Sort"
  /\ UNCHANGED << InOutSplats, Settings, Result, locals >>
  /\ UNCHANGED << callHistory, mergeVars, mortonVars >>

\* a stand-in for SortSplatsByMortonCode that reorders whatever bReorderSplats is
SortSplatsByMortonCode_Always ==
  /\ pc = "Sort"
  /\ LET GlobalBounds == CalculateGlobalBounds(InOutSplats)
         Codes == MortonCodes(InOutSplats, GlobalBounds)
     IN \E Order \in SortedOrders(Codes, 1..Len(InOutSplats)) :
          IF TRUE
          THEN /\ InOutSplats' = [i \in 1..Len(InOutSplats) |-> InOutSplats[Order[i] + 1]]
               /\ SortedIndices' = [i \in 1..Len(InOutSplats) |-> i - 1]
          ELSE /\ InOutSplats' = InOutSplats
               /\ SortedIndices' = Order
  /\ pc' = "Leaves"
  /\ UNCHANGED << Settings, OutHierarchy, Result, CurrentLevel, AllClusters,
                  CurrentLODLevel, NextClusterID, ErrorsVisited, lodLocals >>
  /\ UNCHANGED << callHistory, mergeVars, mortonVars >>

\* lines 26-34: CalculateGlobalBounds and SortSplatsByMortonCode
SortSplatsByMortonCode ==
  /\ pc = "Sort"
  /\ LET GlobalBounds == CalculateGlobalBounds(InOutSplats)
         Codes == MortonCodes(InOutSplats, GlobalBounds)
     IN \E Order \in SortedOrders(Codes, 1..Len(InOutSplats)) :
          IF Settings.bReorderSplats
          THEN /\ InOutSplats' = [i \in 1..Len(InOutSplats) |-> InOutSplats[Order[i] + 1]]
               /\ SortedIndices' = [i \in 1..Len(InOutSplats) |-> i - 1]
          ELSE /\ InOutSplats' = InOutSplats
               /\ SortedIndices' = Order
  /\ pc' = "Leaves"
  /\ UNCHANGED << Settings, OutHierarchy, Result, CurrentLevel, AllClusters,
                  CurrentLODLevel, NextClusterID, ErrorsVisited, lodLocals >>
  /\ UNCHANGED << callHistory, mergeVars, mortonVars >>

\* lines 36-49: CreateLeafClusters and the locals of the level loop
CreateLeaves ==
  /\ pc = "Leaves"
  /\ \E Division \in DivideOutcomes(Len(InOutSplats), Settings.SplatsPerCluster) :
       IF Division.Trap
       THEN /\ pc' = "Crashed"
            /\ UNCHANGED << OutHierarchy, CurrentLevel, AllClusters, NextClusterID >>
       ELSE LET LeafClusters ==
                  CreateLeafClusters(InOutSplats, Settings.SplatsPerCluster, Division.Quotient)
            IN /\ OutHierarchy' = [OutHierarchy EXCEPT !.NumLeafClusters = Len(LeafClusters)]
               /\ CurrentLevel' = LeafClusters
               /\ AllClusters' = LeafClusters
               /\ NextClusterID' = Len(LeafClusters)
               /\ pc' = "Levels"
  /\ CurrentLODLevel' = 0
  /\ UNCHANGED << InOutSplats, Settings, Result, SortedIndices, ErrorsVisited, lodLocals >>
  /\ UNCHANGED << callHistory, mergeVars, mortonVars >>

\* lines 52-86: one pass of the while loop
BuildLevel ==
  /\ pc = "Levels"
  /\ Len(CurrentLevel) > 1
  /\ CurrentLODLevel < MaxLevels
  /\ \E Division \in DivideOutcomes(Len(CurrentLevel), Settings.MaxChildrenPerCluster) :
       IF Division.Trap
       THEN /\ pc' = "Crashed"
            /\ UNCHANGED << CurrentLevel, AllClusters, CurrentLODLevel, NextClusterID >>
       ELSE LET ParentLevel ==
                  ParentClusters(CurrentLevel, Settings.MaxChildrenPerCluster,
                                 CurrentLODLevel + 1, NextClusterID, Division.Quotient)
                Children ==
                  UpdatedChildren(CurrentLevel, Settings.MaxChildrenPerCluster,
                                  NextClusterID, Division.Quotient)
            IN /\ CurrentLODLevel' = CurrentLODLevel + 1
               /\ NextClusterID' = NextClusterID + Len(ParentLevel)
               /\ AllClusters' = CopyParentIDs(AllClusters, Children, 1) \o ParentLevel
               /\ CurrentLevel' = ParentLevel
               /\ pc' = "Levels"
  /\ UNCHANGED << InOutSplats, Settings, OutHierarchy, Result, SortedIndices, ErrorsVisited,
                  lodLocals >>
  /\ UNCHANGED << callHistory, mergeVars, mortonVars >>

\* line 52 false: the loop is left
LevelsDone ==
  /\ pc = "Levels"
  /\ ~(Len(CurrentLevel) > 1)
  /\ pc' = "Errors"
  /\ ErrorsVisited' = 0
  /\ UNCHANGED << InOutSplats, Settings, OutHierarchy, Result, SortedIndices,
                  CurrentLevel, AllClusters, CurrentLODLevel, NextClusterID, lodLocals >>
  /\ UNCHANGED << callHistory, mergeVars, mortonVars >>

\* lines 89-95: the error loop advances to its next non-leaf cluster
CalculateErrors ==
  /\ pc = "Errors"
  /\ PendingErrors(AllClusters, ErrorsVisited) # {}
  /\ LET i == SetMin(PendingErrors(AllClusters, ErrorsVisited))
     IN /\ AllClusters' = [AllClusters EXCEPT
                             ![i].MaxError = CalculateClusterError(AllClusters[i], AllClusters)]
        /\ ErrorsVisited' = i
  /\ UNCHANGED << pc, InOutSplats, Settings, OutHierarchy, Result, SortedIndices,
                  CurrentLevel, CurrentLODLevel, NextClusterID, lodLocals >>
  /\ UNCHANGED << callHistory, mergeVars, mortonVars >>

\* lines 97-100: the error loop is over, the results are stored
StoreResults ==
  /\ pc = "Errors"
  /\ PendingErrors(AllClusters, ErrorsVisited) = {}
  /\ OutHierarchy' = [OutHierarchy EXCEPT
                        !.Clusters = AllClusters,
                        !.NumLODLevels = CurrentLODLevel + 1,
                        !.RootClusterIndex = Len(AllClusters) - 1]
  /\ AllClusters' = << >>
  /\ ErrorsVisited' = Len(AllClusters)
  /\ pc' = "Stored"
  /\ UNCHANGED << InOutSplats, Settings, Result, SortedIndices, CurrentLevel,
                  CurrentLODLevel, NextClusterID, lodLocals >>
  /\ UNCHANGED << callHistory, mergeVars, mortonVars >>

\* lines 108-110 and 514-520: the call of GenerateLODSplats up to its loops
BeginLOD ==
  /\ pc = "Stored"
  /\ Settings.bGenerateLOD /\ OutHierarchy.NumLODLevels > 1
  /\ OutHierarchy' = [OutHierarchy EXCEPT !.LODSplats = << >>]
  /\ NextLODSplatIndex' = 0
  /\ LODLevel' = 1
  /\ LODVisited' = 0
  /\ pc' = "LOD"
  /\ UNCHANGED << InOutSplats, Settings, Result, buildLocals >>
  /\ UNCHANGED << callHistory, mergeVars, mortonVars >>

\* lines 525-605: the loops of GenerateLODSplats advance to the next cluster
\* whose LODLevel is the level in progress, and process it
GenerateLOD ==
  /\ pc = "LOD"
  /\ PendingLOD(OutHierarchy, LODLevel, LODVisited) # {}
  /\ LET lc == FirstPendingLOD(PendingLOD(OutHierarchy, LODLevel, LODVisited))
         ReductionRatio == EffectiveReductionRatio(Settings.LODReductionRatio)
         After == GenerateClusterLOD(InOutSplats, OutHierarchy, ReductionRatio,
                                     lc[2], NextLODSplatIndex)
     IN /\ OutHierarchy' = After
        /\ NextLODSplatIndex' = NextLODSplatIndex
                                  + (Len(After.LODSplats) - Len(OutHierarchy.LODSplats))
        /\ LODLevel' = lc[1]
        /\ LODVisited' = lc[2]
  /\ UNCHANGED << pc, InOutSplats, Settings, Result, buildLocals >>
  /\ UNCHANGED << callHistory, mergeVars, mortonVars >>

\* lines 607 and 114: the loops are over, the total is stored, return true
FinishLOD ==
  /\ pc = "LOD"
  /\ PendingLOD(OutHierarchy, LODLevel, LODVisited) = {}
  /\ OutHierarchy' = [OutHierarchy EXCEPT !.TotalLODSplatCount = Len(OutHierarchy.LODSplats)]
  /\ Result' = "true"
  /\ pc' = "Done"
  /\ NoLocals
  /\ UNCHANGED << InOutSplats, Settings >>
  /\ UNCHANGED << callHistory, mergeVars, mortonVars >>

\* lines 108 and 114: no LOD generation, return true; the locals go out of
\* scope
Return ==
  /\ pc = "Stored"
  /\ ~(Settings.bGenerateLOD /\ OutHierarchy.NumLODLevels > 1)
  /\ Result' = "true"
  /\ pc' = "Done"
  /\ NoLocals
  /\ UNCHANGED << InOutSplats, Settings, OutHierarchy >>
  /\ UNCHANGED << callHistory, mergeVars, mortonVars >>

\* the caller builds again into the same hierarchy object, from the array as
\* the last call left it or from an emptied one
CallAgain ==
  /\ pc = "Done"
  /\ InOutSplats' \in {InOutSplats, << >>}
  /\ CallInput' = InOutSplats'
  /\ Previous' = [ Made |-> TRUE, Input |-> CallInput, Settings |-> Settings,
                   Result |-> Result, Splats |-> InOutSplats, Hierarchy |-> OutHierarchy ]
  /\ Result' = "none"
  /\ pc' = "Entry"
  /\ UNCHANGED << Settings, OutHierarchy, locals, mergeVars, mortonVars >>

Next ==
  \/ EnterEmpty
  \/ Enter
  \/ SortSplatsByMortonCode
  \/ CreateLeaves
  \/ BuildLevel
  \/ LevelsDone
  \/ CalculateErrors
  \/ StoreResults
  \/ BeginLOD
  \/ GenerateLOD
  \/ FinishLOD
  \/ Return
  \/ CallAgain

Spec == Init /\ [][Next]_vars

\* --------------------------------------- direct calls of the merge functions
\* MergeGaussians and MergeLODSplats are static functions of the builder; a
\* direct call passes a source array, a start index and a count.

\* the splats the source arrays are made of: opacities 0, 0, 0.5, 1 and 1.5
MergeSplats ==
  { Splat(1, 0, 0, 0, 1), Splat(3, 4, 0, 0, 2), Splat(0, 2, 1, 1, 1),
    Splat(4, 2, 2, 2, 3), Splat(2, 0, 3, 3, 1) }

\* an FGaussianLODSplat with the position, scale, opacity and colour of a splat
LODSplatOf(s) ==
  [ Position |-> s.Position, Rotation |-> "Identity", Scale |-> s.Scale,
    Opacity |-> s.Opacity, Color |-> SHDCToColor(s.SH_DC) ]

MergeSources ==
  UNION {[1..n -> MergeSplats] : n \in 0..MaxRun}

MergeCalls ==
  [ Made : {TRUE}, Function : {"MergeGaussians"}, Source : MergeSources,
    StartIndex : (-1)..MaxRun, Count : (-1)..(MaxRun + 1) ]
  \cup
  [ Made : {TRUE}, Function : {"MergeLODSplats"},
    Source : {[i \in 1..Len(a) |-> LODSplatOf(a[i])] : a \in MergeSources},
    StartIndex : (-1)..MaxRun, Count : (-1)..(MaxRun + 1) ]

MergeInit ==
  /\ pc = "MergeEntry"
  /\ MergeCall \in MergeCalls
  /\ MergeReturn = NoCall
  /\ MergeRead = {}
  /\ MortonInput = NoCall
  /\ MortonKey = NoCall
  /\ InOutSplats = << >>
  /\ Settings = [ SplatsPerCluster |-> DefaultSplatsPerCluster, MaxChildrenPerCluster |-> DefaultMaxChildrenPerCluster,
                  bReorderSplats |-> TRUE, bGenerateLOD |-> TRUE,
                  LODReductionRatio |-> DefaultLODReductionRatio ]
  /\ OutHierarchy = FreshHierarchy
  /\ Result = "none"
  /\ SortedIndices = << >>
  /\ CurrentLevel = << >>
  /\ AllClusters = << >>
  /\ CurrentLODLevel = 0
  /\ NextClusterID = 0
  /\ ErrorsVisited = 0
  /\ LODLevel = 0
  /\ LODVisited = 0
  /\ NextLODSplatIndex = 0
  /\ CallInput = << >>
  /\ Previous = NoCall

\* lines 352-437
CallMergeGaussians ==
  /\ pc = "MergeEntry"
  /\ MergeCall.Function = "MergeGaussians"
  /\ MergeReturn' = MergeGaussians(MergeCall.Source, MergeCall.StartIndex, MergeCall.Count)
  /\ MergeRead' = MergeReads(Len(MergeCall.Source), MergeCall.StartIndex, MergeCall.Count)
  /\ pc' = "MergeDone"
  /\ UNCHANGED << MergeCall, InOutSplats, Settings, OutHierarchy, Result, locals,
                  callHistory, mortonVars >>

\* lines 439-507
CallMergeLODSplats ==
  /\ pc = "MergeEntry"
  /\ MergeCall.Function = "MergeLODSplats"
  /\ MergeReturn' = MergeLODSplats(MergeCall.Source, MergeCall.StartIndex, MergeCall.Count)
  /\ MergeRead' = MergeReads(Len(MergeCall.Source), MergeCall.StartIndex, MergeCall.Count)
  /\ pc' = "MergeDone"
  /\ UNCHANGED << MergeCall, InOutSplats, Settings, OutHierarchy, Result, locals,
                  callHistory, mortonVars >>

MergeNext ==
  \/ CallMergeGaussians
  \/ CallMergeLODSplats

MergeSpec == MergeInit /\ [][MergeNext]_vars

\* ------------------------------------------- direct use of the bit interleave
\* the coordinates tried on the axis under test: every single bit, every
\* value with a single bit missing, the low values, the largest value
MortonCoordinates ==
  LET MaxVal == (2 ^ MortonBits) - 1
  IN {2 ^ i : i \in 0..(MortonBits - 1)}
       \cup {MaxVal - 2 ^ i : i \in 0..(MortonBits - 1)}
       \cup 0..MaxLowCoordinate
       \cup {MaxVal}
\* the coordinates tried on the other two axes
MortonOtherCoordinates ==
  {0, 1, (2 ^ MortonBits) - 1, 2 ^ (MortonBits - 1), ((2 ^ (MortonBits + 1)) - 2) \div 3}
\* X, Y, Z with each axis in turn under test
MortonInputs ==
  UNION { { <<a, b, c>>, <<c, a, b>>, <<b, c, a>> } :
            <<a, b, c>> \in MortonCoordinates \X MortonOtherCoordinates
                              \X MortonOtherCoordinates }

MortonInit ==
  /\ pc = "MortonEntry"
  /\ MortonInput \in MortonInputs
  /\ MortonKey = NoCall
  /\ MergeCall = NoCall
  /\ MergeReturn = NoCall
  /\ MergeRead = {}
  /\ InOutSplats = << >>
  /\ Settings = [ SplatsPerCluster |-> DefaultSplatsPerCluster,
                  MaxChildrenPerCluster |-> DefaultMaxChildrenPerCluster,
                  bReorderSplats |-> TRUE, bGenerateLOD |-> TRUE,
                  LODReductionRatio |-> DefaultLODReductionRatio ]
  /\ OutHierarchy = FreshHierarchy
  /\ Result = "none"
  /\ SortedIndices = << >>
  /\ CurrentLevel = << >>
  /\ AllClusters = << >>
  /\ CurrentLODLevel = 0
  /\ NextClusterID = 0
  /\ ErrorsVisited = 0
  /\ LODLevel = 0
  /\ LODVisited = 0
  /\ NextLODSplatIndex = 0
  /\ CallInput = << >>
  /\ Previous = NoCall

\* lines 486-498 of GaussianClusterTypes.h: the three SplitBy3 results or-ed
InterleaveQuantized ==
  /\ pc = "MortonEntry"
  /\ MortonKey' = InterleaveBits(MortonInput[1], MortonInput[2], MortonInput[3])
  /\ pc' = "MortonDone"
  /\ UNCHANGED << MortonInput, InOutSplats, Settings, OutHierarchy, Result, locals,
                  callHistory, mergeVars >>

MortonNext == InterleaveQuantized

MortonSpec == MortonInit /\ [][MortonNext]_vars

TypeOK ==
  /\ pc \in {"Entry", "Sort", "Leaves", "Levels", "Errors", "Stored", "LOD", "Done",
            "Crashed", "MergeEntry", "MergeDone", "MortonEntry", "MortonDone"}
  /\ Result \in {"none", "true", "false"}

\* ================================================================ claims
Returned == pc = "Done" /\ Result = "true"
Failed == pc = "Done" /\ Result = "false"
Built == OutHierarchy.Clusters
SettingsValid == Settings.SplatsPerCluster >= 1 /\ Settings.MaxChildrenPerCluster >= 1

\* the sentinel-parented clusters of the built array
RootSentinels == {i \in 1..Len(Built) : IsRoot(Built[i])}
\* the clusters whose child list holds the ID
ListedBy(ID) ==
  {i \in 1..Len(Built) : \E k \in 1..Len(Built[i].ChildClusterIDs) :
                           Built[i].ChildClusterIDs[k] = ID}
\* the children of a built cluster
ChildrenOf(P) ==
  {i \in 1..Len(Built) : \E k \in 1..Len(P.ChildClusterIDs) :
                           P.ChildClusterIDs[k] = Built[i].ClusterID}

\* C1: with N >= 1, leafSize >= 1 and maxChildrenPerCluster >= 1 the level
\* loop reaches a level of one cluster and the call returns. The size of
\* the current level is the loop's only variant (the next size is a function
\* of the current size alone), so the loop ends exactly when every pass
\* hands on fewer clusters than it was given.
C1_LevelLoopReachesRoot ==
  [][(pc = "Levels" /\ pc' = "Levels" /\ SettingsValid)
       => Len(CurrentLevel') < Len(CurrentLevel)]_vars

\* C2: after every successful call exactly one cluster of
\* Hierarchy.Clusters has the root sentinel as ParentClusterID, and
\* RootClusterIndex is its array index.
C2_SingleRoot ==
  Returned => /\ Cardinality(RootSentinels) = 1
              /\ OutHierarchy.RootClusterIndex + 1 \in RootSentinels

\* C3: for N >= 1 and leafSize K >= 1 CreateLeafClusters makes ceil(N/K)
\* leaves whose ranges lie in [0, N), cover every index exactly once, hold
\* between 1 and K splats, and only the last may hold fewer than K.
C3_LeafPartition ==
  (pc = "Levels" /\ CurrentLODLevel = 0 /\ Settings.SplatsPerCluster >= 1) =>
    LET K == Settings.SplatsPerCluster
        N == Len(InOutSplats)
        n == Len(CurrentLevel)
    IN /\ n * K >= N /\ (n - 1) * K < N
       /\ \A i \in 1..n :
            /\ CurrentLevel[i].SplatCount \in 1..K
            /\ CurrentLevel[i].SplatStartIndex >= 0
            /\ CurrentLevel[i].SplatStartIndex + CurrentLevel[i].SplatCount <= N
            /\ i < n => CurrentLevel[i].SplatCount = K
       /\ \A x \in 0..(N - 1) :
            Cardinality({i \in 1..n :
               /\ CurrentLevel[i].SplatStartIndex <= x
               /\ x < CurrentLevel[i].SplatStartIndex + CurrentLevel[i].SplatCount}) = 1

C3_Witness ==
  /\ pc = "Levels" /\ CurrentLODLevel = 0 /\ Settings.SplatsPerCluster = 2
  /\ Len(InOutSplats) = 5 /\ Len(CurrentLevel) = 3
  /\ CurrentLevel[3].SplatCount = 1

RECURSIVE SumSplatCounts(_)
SumSplatCounts(S) ==
  IF S = {} THEN 0
  ELSE LET i == CHOOSE x \in S : TRUE
       IN Built[i].SplatCount + SumSplatCounts(S \ {i})

\* C4: in the returned hierarchy every non-leaf cluster has SplatCount equal
\* to the sum of its children's SplatCount and SplatStartIndex equal to the
\* least of its children's SplatStartIndex.
C4_Aggregation ==
  Returned =>
    \A p \in 1..Len(Built) : ~IsLeaf(Built[p]) =>
      LET Kids == ChildrenOf(Built[p])
      IN /\ Built[p].SplatCount = SumSplatCounts(Kids)
         /\ \A c \in Kids : Built[p].SplatStartIndex <= Built[c].SplatStartIndex
         /\ \E c \in Kids : Built[p].SplatStartIndex = Built[c].SplatStartIndex

C4_Witness ==
  /\ Returned
  /\ \E p \in 1..Len(Built) :
       /\ Built[p].LODLevel = 2
       /\ Cardinality(ChildrenOf(Built[p])) = 2
       /\ \E c \in ChildrenOf(Built[p]) :
            Built[c].SplatStartIndex > Built[p].SplatStartIndex /\ Built[c].SplatCount > 1

\* C5: in the returned cluster array every non-root cluster's ID is in the
\* child list of exactly one cluster, and the ParentClusterID stored for it
\* in Hierarchy.Clusters is that cluster's ID. Non-root is the code's
\* !IsRoot(); a cluster that some child list names is held to the same.
C5_ParentLinks ==
  Returned =>
    \A c \in 1..Len(Built) :
      (~IsRoot(Built[c]) \/ ListedBy(Built[c].ClusterID) # {}) =>
        /\ Cardinality(ListedBy(Built[c].ClusterID)) = 1
        /\ \A p \in ListedBy(Built[c].ClusterID) :
             Built[c].ParentClusterID = Built[p].ClusterID

C5_Witness ==
  /\ Returned
  /\ \E c \in 1..Len(Built) :
       /\ Built[c].LODLevel = 1
       /\ ~IsRoot(Built[c])
       /\ ListedBy(Built[c].ClusterID) # {}

\* point p inside the box [lo, hi] on every axis
Inside(p, lo, hi) == \A a \in 1..3 : lo[a] <= p[a] /\ p[a] <= hi[a]
\* 0-based splat index x in [SplatStartIndex, SplatStartIndex + SplatCount)
InRange(x, c) ==
  /\ ~ULess(x, c.SplatStartIndex)
  /\ ULess(x, c.SplatStartIndex + c.SplatCount)

\* C6: in the returned hierarchy each child's BoundsMin is >= its parent's
\* BoundsMin and its BoundsMax <= its parent's BoundsMax on every axis, and
\* every leaf's bounds hold the position of every splat in the leaf's range.
C6_Containment ==
  Returned =>
    /\ \A p \in 1..Len(Built) : \A c \in ChildrenOf(Built[p]) :
         \A a \in 1..3 : /\ Built[c].BoundsMin[a] >= Built[p].BoundsMin[a]
                         /\ Built[c].BoundsMax[a] <= Built[p].BoundsMax[a]
    /\ \A l \in 1..Len(Built) : IsLeaf(Built[l]) =>
         \A x \in 0..(Len(InOutSplats) - 1) : InRange(x, Built[l]) =>
           Inside(InOutSplats[x + 1].Position, Built[l].BoundsMin, Built[l].BoundsMax)

C6_Witness ==
  /\ Returned
  /\ \E p \in 1..Len(Built) : \E c \in ChildrenOf(Built[p]) :
       /\ ~IsLeaf(Built[c])
       /\ \E a \in 1..3 : Built[c].BoundsMin[a] > Built[p].BoundsMin[a]
       /\ \E a \in 1..3 : Built[c].BoundsMax[a] < Built[p].BoundsMax[a]
  /\ \E l \in 1..Len(Built) :
       IsLeaf(Built[l]) /\ Built[l].SplatCount = 2 /\ Built[l].BoundsMin # Built[l].BoundsMax

\* C7: a call with zero splats returns false and leaves the hierarchy empty
\* whatever it held: no clusters, no LOD splats, leaf count, level count,
\* splat total and LOD splat total 0, RootClusterIndex the invalid sentinel,
\* IsValid() false.
C7_EmptyInputResets ==
  Failed =>
    /\ Len(InOutSplats) = 0
    /\ OutHierarchy.Clusters = << >>
    /\ OutHierarchy.LODSplats = << >>
    /\ OutHierarchy.NumLeafClusters = 0
    /\ OutHierarchy.NumLODLevels = 0
    /\ OutHierarchy.TotalSplatCount = 0
    /\ OutHierarchy.TotalLODSplatCount = 0
    /\ OutHierarchy.RootClusterIndex = InvalidClusterID
    /\ ~HierarchyIsValid(OutHierarchy)

\* the failed call ran on a hierarchy an earlier build with leaf size 2 filled
C7_Witness ==
  /\ Failed
  /\ OutHierarchy.SplatsPerCluster = 2
  /\ Settings.MaxChildrenPerCluster = 2

\* C8: with N >= 1 and leafSize < 1 or maxChildrenPerCluster < 1 the call
\* never returns success with zero leaf clusters or with more than one
\* cluster carrying the root sentinel.
C8_InvalidSettingsHandled ==
  (Returned /\ ~SettingsValid) =>
    /\ OutHierarchy.NumLeafClusters >= 1
    /\ Cardinality(RootSentinels) = 1

\* C9: in the returned hierarchy MaxError does not decrease toward the root:
\* P.MaxError >= C.MaxError for every non-leaf P and every child C of P.
C9_ErrorMonotone ==
  Returned =>
    \A p \in 1..Len(Built) : \A c \in ChildrenOf(Built[p]) :
      Built[p].MaxError >= Built[c].MaxError

\* max over children c of dist(P.center, c.center) + c.radius + c.MaxError,
\* less P.radius, floored at 0, on the clusters of array A
ErrorLaw(A, p) ==
  LET Kids == {i \in 1..Len(A) : \E k \in 1..Len(A[p].ChildClusterIDs) :
                                   A[p].ChildClusterIDs[k] = A[i].ClusterID}
      Terms == {Dist(A[p].BoundingSphereCenter, A[c].BoundingSphereCenter)
                  + A[c].BoundingSphereRadius + A[c].MaxError : c \in Kids}
  IN IF \E t \in Terms : t - A[p].BoundingSphereRadius > 0
     THEN SetMax(Terms) - A[p].BoundingSphereRadius
     ELSE 0

MergeDone == pc = "MergeDone"
\* count >= 1 and start in range
ValidRun ==
  /\ MergeCall.Count >= 1
  /\ MergeCall.StartIndex >= 0
  /\ MergeCall.StartIndex < Len(MergeCall.Source)
\* the elements of the run, the count cut to the elements available
RunLength == Min(MergeCall.Count, Len(MergeCall.Source) - MergeCall.StartIndex)
TheRun == [i \in 1..RunLength |-> MergeCall.Source[MergeCall.StartIndex + i]]
OpacitySum == SeqSum([i \in 1..RunLength |-> TheRun[i].Opacity])
PositionSum(a) == SeqSum([i \in 1..RunLength |-> TheRun[i].Position[a]])

\* C11: for every valid run the merge weights sum to 1 (to within one grid
\* unit per weight); they are opacity_i / opacity sum when the sum is not
\* approximately 0, and 1/count when it is, and then the merged position is
\* the unweighted mean of the run's positions.
C11_WeightsSumToOne ==
  (MergeDone /\ ValidRun) =>
    LET W == MergeWeights(TheRun)
    IN /\ Abs(SeqSum(W) - Q) < RunLength
       /\ ~BelowSmallNumber(OpacitySum) =>
            \A i \in 1..RunLength : W[i] = FDiv(TheRun[i].Opacity, OpacitySum)
       /\ BelowSmallNumber(OpacitySum) =>
            /\ \A i \in 1..RunLength : W[i] = Q \div RunLength
            /\ \A a \in 1..3 :
                 Abs(RunLength * MergeReturn.Position[a] - PositionSum(a)) <= RunLength

\* C12: merging a run of count 1 whose primitive has an opacity in [0,1]
\* returns that primitive's position and opacity.
C12_MergeIdentity ==
  (MergeDone /\ ValidRun /\ MergeCall.Count = 1
     /\ TheRun[1].Opacity >= 0 /\ TheRun[1].Opacity <= Q) =>
    /\ MergeReturn.Position = TheRun[1].Position
    /\ MergeReturn.Opacity = TheRun[1].Opacity

RECURSIVE TransparencyProduct(_)
\* the product of (1 - clamp(opacity, 0, 1)) over a run, scaled by Q ^ Len
TransparencyProduct(Run) ==
  IF Len(Run) = 0 THEN 1
  ELSE (Q - Clamp(Run[1].Opacity, 0, Q)) * TransparencyProduct(Tail(Run))
\* the orders a run can be given in
Reorderings(Run) ==
  {[i \in 1..Len(Run) |-> Run[f[i]]] :
     f \in {g \in [1..Len(Run) -> 1..Len(Run)] :
              \A i, j \in 1..Len(Run) : g[i] = g[j] => i = j}}

\* C13: for every valid run the merged opacity is 1 minus the product of the
\* (1 - clamped opacity) of the run; it lies in [0,1], is at least every
\* clamped input opacity, and is the same for every order of the run.
C13_OpacityComposition ==
  (MergeDone /\ ValidRun) =>
    /\ (Q - MergeReturn.Opacity) * Q ^ (RunLength - 1) = TransparencyProduct(TheRun)
    /\ MergeReturn.Opacity >= 0 /\ MergeReturn.Opacity <= Q
    /\ \A i \in 1..RunLength : MergeReturn.Opacity >= Clamp(TheRun[i].Opacity, 0, Q)
    /\ \A R \in Reorderings(TheRun) : CombinedOpacity(R) = MergeReturn.Opacity
\* two inputs of 0.5 merged to 0.75
C13_Witness ==
  /\ MergeDone /\ ValidRun /\ RunLength = 2
  /\ TheRun[1].Opacity = Q \div 2 /\ TheRun[2].Opacity = Q \div 2
  /\ MergeReturn.Opacity = 3 * (Q \div 4)

\* C14: a merge called with count <= 0, a negative start or a start at or
\* past the end returns the default simplified primitive (position 0, scale
\* 1, opacity 1, colour 1, identity rotation) and reads no element; no call
\* reads outside the array, and a count running past the end merges exactly
\* the elements from the start to the end.
C14_DegenerateMerge ==
  MergeDone =>
    /\ ~ValidRun =>
         /\ MergeRead = {}
         /\ MergeReturn = [ Position |-> <<0, 0, 0>>, Rotation |-> "Identity",
                            Scale |-> <<Q, Q, Q>>, Opacity |-> Q, Color |-> <<Q, Q, Q>> ]
    /\ MergeRead \subseteq 0..(Len(MergeCall.Source) - 1)
    /\ (ValidRun /\ MergeCall.StartIndex + MergeCall.Count > Len(MergeCall.Source)) =>
         /\ MergeRead = MergeCall.StartIndex..(Len(MergeCall.Source) - 1)
         /\ MergeReturn =
              IF MergeCall.Function = "MergeGaussians"
              THEN MergeGaussians(MergeCall.Source, MergeCall.StartIndex,
                                  Len(MergeCall.Source) - MergeCall.StartIndex)
              ELSE MergeLODSplats(MergeCall.Source, MergeCall.StartIndex,
                                  Len(MergeCall.Source) - MergeCall.StartIndex)
\* a count that runs past the end of a non-empty array
C14_Witness ==
  /\ MergeDone /\ ValidRun
  /\ MergeCall.StartIndex + MergeCall.Count > Len(MergeCall.Source)
  /\ Cardinality(MergeRead) = 2

\* ------------------------------------------------- LOD generation (C15, C16)
\* a successful call with LOD generation on and a reduction ratio >= 1
ReturnedWithLOD ==
  Returned /\ Settings.bGenerateLOD /\ Settings.LODReductionRatio >= 1
CeilDiv(a, b) == (a + b - 1) \div b
\* the simplified primitives a built cluster owns, in order
LODSplatsOf(c) ==
  [i \in 1..c.LODSplatCount |-> OutHierarchy.LODSplats[c.LODSplatStartIndex + i]]

\* C15: with LOD generation on and reduction ratio R >= 1, every cluster of
\* LOD level 1 whose range holds S primitives owns exactly ceil(S/R)
\* simplified primitives, the i-th being the merge of the primitives at
\* indices start + i*R up to min(start + (i+1)*R, start + S) of its range.
C15_LevelOneLODCount ==
  ReturnedWithLOD =>
    \A p \in 1..Len(Built) :
      Built[p].LODLevel = 1 =>
        LET c == Built[p]
            R == Settings.LODReductionRatio
        IN /\ c.LODSplatCount = CeilDiv(c.SplatCount, R)
           /\ \A i \in 0..(c.LODSplatCount - 1) :
                LODSplatsOf(c)[i + 1] =
                  MergeGaussians(InOutSplats, c.SplatStartIndex + i * R,
                                 Min(R, c.SplatCount - i * R))
\* a level-1 cluster of 3 primitives with R = 2 owns 2 simplified primitives
C15_Witness ==
  /\ ReturnedWithLOD /\ Settings.LODReductionRatio = 2
  /\ \E p \in 1..Len(Built) :
       Built[p].LODLevel = 1 /\ Built[p].SplatCount = 3 /\ Built[p].LODSplatCount = 2

\* the built index of the cluster with the ID
IndexOfID(ID) == CHOOSE i \in 1..Len(Built) : Built[i].ClusterID = ID
RECURSIVE GatheredFrom(_, _)
\* the simplified primitives of the listed children, in child-list order
GatheredFrom(ChildClusterIDs, k) ==
  IF k > Len(ChildClusterIDs) THEN << >>
  ELSE LODSplatsOf(Built[IndexOfID(ChildClusterIDs[k])])
         \o GatheredFrom(ChildClusterIDs, k + 1)

\* C16: while GenerateLODSplats runs, the next cluster it takes at a LOD
\* level above 1 has no child still waiting for its simplified primitives;
\* in the result every such cluster owns ceil(G/R) simplified primitives,
\* merged from consecutive groups of R of the G primitives its children own
\* taken in child-list order, and owns none when G = 0.
C16_HigherLevelLOD ==
  /\ (pc = "LOD" /\ PendingLOD(OutHierarchy, LODLevel, LODVisited) # {}) =>
       LET Pending == PendingLOD(OutHierarchy, LODLevel, LODVisited)
           lc == FirstPendingLOD(Pending)
           c == Built[lc[2]]
       IN lc[1] > 1 =>
            \A k \in 1..Len(c.ChildClusterIDs) : \A q \in Pending :
              Built[q[2]].ClusterID # c.ChildClusterIDs[k]
  /\ ReturnedWithLOD =>
       \A p \in 1..Len(Built) :
         Built[p].LODLevel > 1 =>
           LET c == Built[p]
               R == Settings.LODReductionRatio
               Gathered == GatheredFrom(c.ChildClusterIDs, 1)
               G == Len(Gathered)
           IN /\ G = SeqSum([k \in 1..Len(c.ChildClusterIDs) |->
                               Built[IndexOfID(c.ChildClusterIDs[k])].LODSplatCount])
              /\ c.LODSplatCount = CeilDiv(G, R)
              /\ \A i \in 0..(c.LODSplatCount - 1) :
                   LODSplatsOf(c)[i + 1] = MergeLODSplats(Gathered, i * R, Min(R, G - i * R))
\* a level-2 cluster that merged the 4 simplified primitives of its 2
\* children into 2
C16_Witness ==
  /\ ReturnedWithLOD /\ Settings.LODReductionRatio = 2
  /\ \E p \in 1..Len(Built) :
       /\ Built[p].LODLevel = 2 /\ Len(Built[p].ChildClusterIDs) = 2
       /\ Len(GatheredFrom(Built[p].ChildClusterIDs, 1)) = 4
       /\ Built[p].LODSplatCount = 2

\* ------------------------------------------------------- determinism (C17)
\* the call that has returned was given the array and the settings of the
\* caller's previous call
SameCallTwice ==
  /\ pc = "Done"
  /\ Previous.Made
  /\ Previous.Input = CallInput
  /\ Previous.Settings = Settings
\* the spatial keys of an array, in array order
KeysOf(Splats) == MortonCodes(Splats, CalculateGlobalBounds(Splats))
\* no two primitives of the array share a spatial key
KeysDistinct(Splats) ==
  LET Codes == KeysOf(Splats)
  IN \A i, j \in 1..Len(Splats) : Codes[i] = Codes[j] => i = j

LevelCount(L) == Cardinality({i \in 1..Len(Built) : Built[i].LODLevel = L})

SingleLeafCall ==
  /\ Len(InOutSplats) >= 1
  /\ Len(InOutSplats) <= Settings.SplatsPerCluster
  /\ Settings.MaxChildrenPerCluster >= 1
SortedSplat(i) == InOutSplats[SortedIndices[i + 1] + 1]
\* the sorted positions a cluster's range names
RangeOf(c) == c.SplatStartIndex..(c.SplatStartIndex + c.SplatCount - 1)

\* C20: right after the leaves are created, with reordering on or off, the
\* bounds of every leaf are the bounds of the primitives that the sort
\* permutation places at the sorted positions of the leaf's range, and the
\* primitives at the array positions the ranges name have non-decreasing
\* spatial keys.
C20_LeafRangesInSortedOrder ==
  (pc = "Levels" /\ CurrentLODLevel = 0 /\ Settings.SplatsPerCluster >= 1) =>
    /\ \A n \in 1..Len(AllClusters) :
         LET c == AllClusters[n]
         IN \A a \in 1..3 :
              /\ \A i \in RangeOf(c) : /\ c.BoundsMin[a] <= SortedSplat(i).Position[a]
                                       /\ c.BoundsMax[a] >= SortedSplat(i).Position[a]
              /\ \E i \in RangeOf(c) : c.BoundsMin[a] = SortedSplat(i).Position[a]
              /\ \E i \in RangeOf(c) : c.BoundsMax[a] = SortedSplat(i).Position[a]
    /\ LET Keys == KeysOf(InOutSplats)
       IN \A i, j \in 1..Len(InOutSplats) : i < j => ~KeyLess(Keys[j], Keys[i])

\* ------------------------------------------------------- the sort (C21, C22)
\* how often a value occurs in a sequence
Occurrences(s, e) == Cardinality({i \in 1..Len(s) : s[i] = e})
\* the two arrays hold the same elements the same number of times
SameMultiset(s, t) ==
  /\ Len(s) = Len(t)
  /\ \A i \in 1..Len(s) : Occurrences(s, s[i]) = Occurrences(t, s[i])
\* a <= b on two keys given as words, most significant first
KeyAtMost(a, b) ==
  \/ a = b
  \/ a[1] < b[1]
  \/ a[1] = b[1] /\ a[2] < b[2]
  \/ a[1] = b[1] /\ a[2] = b[2] /\ a[3] < b[3]
  \/ a[1] = b[1] /\ a[2] = b[2] /\ a[3] = b[3] /\ a[4] < b[4]

\* C21: right after SortSplatsByMortonCode the returned indices are a
\* permutation of 0..N-1 and the spatial keys of the primitives taken in
\* that order are non-decreasing; with reordering requested the array holds
\* the same multiset of primitives as the input, now in that order, and the
\* returned permutation is the identity; without it the array is as it was.
C21_SortPermutation ==
  pc = "Leaves" =>
    LET N == Len(CallInput)
        GlobalBounds == CalculateGlobalBounds(CallInput)
        Keys == MortonCodes(InOutSplats, GlobalBounds)
    IN /\ Len(SortedIndices) = N
       /\ \A v \in 0..(N - 1) : Occurrences(SortedIndices, v) = 1
       /\ \A i \in 1..(N - 1) :
            KeyAtMost(Keys[SortedIndices[i] + 1], Keys[SortedIndices[i + 1] + 1])
       /\ Settings.bReorderSplats =>
            /\ SameMultiset(InOutSplats, CallInput)
            /\ SortedIndices = [i \in 1..N |-> i - 1]
       /\ ~Settings.bReorderSplats => InOutSplats = CallInput
\* an array of 5 that the reorder changed
C21_Witness ==
  /\ pc = "Leaves" /\ Settings.bReorderSplats
  /\ Len(CallInput) = 5 /\ InOutSplats # CallInput
  /\ SameMultiset(InOutSplats, CallInput)

\* C22: inside a call only the step of SortSplatsByMortonCode changes the
\* caller's array, and no cluster exists before it is over; when the call is
\* over the array is the input element for element if reordering is off or
\* the input was empty, and a permutation of the input otherwise.
C22_OnlyReorderChangesArray ==
  [][/\ (pc \notin {"Sort", "Done"}) => InOutSplats' = InOutSplats
     /\ pc = "Sort" => (CurrentLevel = << >> /\ AllClusters = << >>
                          /\ OutHierarchy.Clusters = << >>)
     /\ pc' = "Done" =>
          /\ SameMultiset(InOutSplats', CallInput')
          /\ ~Settings'.bReorderSplats => InOutSplats' = CallInput'
          /\ Result' = "false" => InOutSplats' = CallInput']_vars
\* a successful build that left the array reordered
C22_Witness ==
  /\ Returned /\ Settings.bReorderSplats
  /\ InOutSplats # CallInput /\ Len(Built) >= 3

\* -------------------------------------------------- the Morton key (C23)
MortonDone == pc = "MortonDone"
\* bit i of a natural number
BitSet(n, i) == (n \div (2 ^ i)) % 2 = 1
RECURSIVE AxisOf(_, _, _)
\* the number whose bit i is bit 3i + offset of the key, for i < n
AxisOf(Key, offset, n) ==
  IF n = 0 THEN 0
  ELSE AxisOf(Key, offset, n - 1)
         + (IF 3 * (n - 1) + offset \in Key THEN 2 ^ (n - 1) ELSE 0)

\* C23: for quantized coordinates X, Y, Z below 2^21 the interleaved key has
\* bit 3i equal to bit i of X, bit 3i+1 to bit i of Y and bit 3i+2 to bit i of
\* Z for i = 0..20; bit 63 is zero, so the key is below 2^63, and X, Y and Z
\* can be read back from the key, so distinct triples give distinct keys.
C23_MortonInterleave ==
  MortonDone =>
    /\ \A i \in 0..(MortonBits - 1) :
         /\ (3 * i \in MortonKey) <=> BitSet(MortonInput[1], i)
         /\ (3 * i + 1 \in MortonKey) <=> BitSet(MortonInput[2], i)
         /\ (3 * i + 2 \in MortonKey) <=> BitSet(MortonInput[3], i)
    /\ MortonKey \subseteq 0..62
    /\ AxisOf(MortonKey, 0, MortonBits) = MortonInput[1]
    /\ AxisOf(MortonKey, 1, MortonBits) = MortonInput[2]
    /\ AxisOf(MortonKey, 2, MortonBits) = MortonInput[3]
\* the top bit of Z and the lowest bit of X both set
C23_Witness ==
  /\ MortonDone
  /\ MortonInput[3] >= 2 ^ (MortonBits - 1) /\ 62 \in MortonKey
  /\ MortonInput[1] = 1 /\ 0 \in MortonKey

\* ------------------------------------------------ cluster array (C24, C25)
\* C24: in the array of a successful build the cluster at index i has
\* ClusterID i and FindClusterByID(i) returns it; all leaves come first and
\* LODLevel never decreases along the array.
C24_DenseIDs ==
  Returned =>
    /\ \A i \in 1..Len(Built) :
         /\ Built[i].ClusterID = i - 1
         /\ FindClusterByID(OutHierarchy, i - 1) = i
    /\ \A i, j \in 1..Len(Built) :
         i < j => /\ IsLeaf(Built[j]) => IsLeaf(Built[i])
                  /\ Built[i].LODLevel <= Built[j].LODLevel
\* leaves, then two further levels
C24_Witness ==
  /\ Returned /\ Len(Built) >= 6 /\ OutHierarchy.NumLODLevels >= 3
  /\ Built[Len(Built)].ClusterID = Len(Built) - 1

\* the non-leaf clusters of a level
ParentsAt(L) == {i \in 1..Len(Built) : Built[i].LODLevel = L /\ ~IsLeaf(Built[i])}

\* C25: for M >= 2 every non-leaf cluster of a successful build has between
\* 1 and M children with consecutive ascending IDs, each on the LOD level
\* just below its own, and on every level every parent but the last has
\* exactly M children.
C25_ChildGroups ==
  (Returned /\ Settings.MaxChildrenPerCluster >= 2) =>
    \A p \in 1..Len(Built) :
      ~IsLeaf(Built[p]) =>
        LET IDs == Built[p].ChildClusterIDs
        IN /\ Len(IDs) >= 1 /\ Len(IDs) <= Settings.MaxChildrenPerCluster
           /\ \A k \in 1..(Len(IDs) - 1) : IDs[k + 1] = IDs[k] + 1
           /\ \A c \in ChildrenOf(Built[p]) : Built[c].LODLevel = Built[p].LODLevel - 1
           /\ (\E q \in ParentsAt(Built[p].LODLevel) : q > p) =>
                Len(IDs) = Settings.MaxChildrenPerCluster
\* a level with a full parent followed by a parent of one child
C25_Witness ==
  /\ Returned /\ Settings.MaxChildrenPerCluster = 2
  /\ \E p, q \in 1..Len(Built) :
       /\ p < q /\ Built[p].LODLevel = 1 /\ Built[q].LODLevel = 1
       /\ Len(Built[p].ChildClusterIDs) = 2 /\ Len(Built[q].ChildClusterIDs) = 1

\* ------------------------------------------------------ ranges (C26, C27)
\* the simplified-primitive indices a built cluster owns
LODRangeOf(c) == c.LODSplatStartIndex..(c.LODSplatStartIndex + c.LODSplatCount - 1)

\* C26: after a successful build with LOD generation on, the ranges of the
\* clusters that own simplified primitives are pairwise disjoint and cover
\* 0..TotalLODSplatCount-1 exactly, and TotalLODSplatCount is the length of
\* the simplified-primitive array and the sum of all LODSplatCount.
C26_LODRangesPartition ==
  (Returned /\ Settings.bGenerateLOD) =>
    /\ OutHierarchy.TotalLODSplatCount = Len(OutHierarchy.LODSplats)
    /\ OutHierarchy.TotalLODSplatCount
         = SeqSum([i \in 1..Len(Built) |-> Built[i].LODSplatCount])
    /\ \A i, j \in 1..Len(Built) :
         i # j => LODRangeOf(Built[i]) \cap LODRangeOf(Built[j]) = {}
    /\ UNION {LODRangeOf(Built[i]) : i \in 1..Len(Built)}
         = 0..(OutHierarchy.TotalLODSplatCount - 1)
\* three clusters that own simplified primitives, five in all
C26_Witness ==
  /\ Returned /\ Settings.bGenerateLOD
  /\ OutHierarchy.TotalLODSplatCount = 5
  /\ Cardinality({i \in 1..Len(Built) : Built[i].LODSplatCount > 0}) = 3

RECURSIVE LeavesUnder(_)
\* the leaves of the subtree of a built cluster
LeavesUnder(p) ==
  IF IsLeaf(Built[p]) THEN {p}
  ELSE UNION {LeavesUnder(c) : c \in ChildrenOf(Built[p])}

\* C27: in a successful build with leaf size >= 1 and M >= 2, the range of
\* every cluster is the union of the ranges of the leaves of its subtree,
\* which are disjoint, and the root's range is 0..N-1 with N the number of
\* primitives, which is TotalSplatCount.
C27_RangesNest ==
  (Returned /\ Settings.SplatsPerCluster >= 1 /\ Settings.MaxChildrenPerCluster >= 2) =>
    /\ \A p \in 1..Len(Built) :
         /\ RangeOf(Built[p]) = UNION {RangeOf(Built[l]) : l \in LeavesUnder(p)}
         /\ \A l, m \in LeavesUnder(p) :
              l # m => RangeOf(Built[l]) \cap RangeOf(Built[m]) = {}
    /\ \E r \in 1..Len(Built) :
         /\ r = OutHierarchy.RootClusterIndex + 1
         /\ Built[r].SplatStartIndex = 0
         /\ Built[r].SplatCount = Len(InOutSplats)
         /\ OutHierarchy.TotalSplatCount = Len(InOutSplats)
\* a middle cluster whose range starts inside the array
C27_Witness ==
  /\ Returned /\ OutHierarchy.NumLODLevels >= 3
  /\ \E p \in 1..Len(Built) :
       /\ Built[p].LODLevel = 1 /\ Built[p].SplatStartIndex > 0
       /\ Cardinality(LeavesUnder(p)) = 2 /\ Built[p].SplatCount = 2

\* ------------------------------------------------ no carry-over (C28)
\* C28: what a call with settings >= 1 leaves in the hierarchy object does
\* not depend on what the object held: after the empty-input failure every
\* field is what the call leaves in a freshly constructed object
\* (SplatsPerCluster included),
\* and a successful call given the array and settings of the previous call
\* and leaving the same array leaves the same hierarchy.
C28_NoCarryOver ==
  /\ (Failed /\ SettingsValid) => OutHierarchy = HierarchyReset(FreshHierarchy)
  /\ (Returned /\ SameCallTwice /\ InOutSplats = Previous.Splats) =>
       OutHierarchy = Previous.Hierarchy

\* -------------------------------------------- LOD merge calls (C29, C30)
\* C29: in a build with leaf size >= 1 and M >= 2, every merge call that
\* GenerateLODSplats issues for the cluster it takes next has StartIndex
\* >= 0, Count >= 1 and StartIndex + Count within its source array, and
\* every simplified-primitive index read from a child lies inside the
\* simplified-primitive array.
C29_LODCallsInRange ==
  (pc = "LOD" /\ Settings.SplatsPerCluster >= 1 /\ Settings.MaxChildrenPerCluster >= 2
     /\ PendingLOD(OutHierarchy, LODLevel, LODVisited) # {}) =>
    LET lc == FirstPendingLOD(PendingLOD(OutHierarchy, LODLevel, LODVisited))
        R == IF Settings.LODReductionRatio < 1 THEN 4 ELSE Settings.LODReductionRatio
    IN /\ \A m \in LODMergeCalls(InOutSplats, OutHierarchy, R, lc[2]) :
            m.StartIndex >= 0 /\ m.Count >= 1 /\ m.StartIndex + m.Count <= m.Num
       /\ \A x \in ChildLODIndices(OutHierarchy, lc[2]) :
            x >= 0 /\ x < Len(OutHierarchy.LODSplats)
\* a level-2 cluster about to merge three simplified primitives of its
\* children in two calls
C29_Witness ==
  /\ pc = "LOD" /\ Settings.LODReductionRatio = 2
  /\ PendingLOD(OutHierarchy, LODLevel, LODVisited) # {}
  /\ LET lc == FirstPendingLOD(PendingLOD(OutHierarchy, LODLevel, LODVisited))
     IN /\ lc[1] = 2
        /\ Cardinality(ChildLODIndices(OutHierarchy, lc[2])) = 3
        /\ Cardinality(LODMergeCalls(InOutSplats, OutHierarchy, 2, lc[2])) = 2

\* the number of items a built non-leaf cluster merges
ItemsMerged(c) ==
  IF c.LODLevel = 1 THEN c.SplatCount
  ELSE SeqSum([k \in 1..Len(c.ChildClusterIDs) |->
                 Built[IndexOfID(c.ChildClusterIDs[k])].LODSplatCount])

\* C30: after a successful build with LOD generation on and more than one
\* level, every leaf owns no simplified primitive and every other cluster
\* owns at least 1 and at most as many as the items it merged; with a
\* reduction ratio below 1 the counts are those of ratio 4, ceil(items / 4).
C30_LODCounts ==
  (Returned /\ Settings.bGenerateLOD /\ OutHierarchy.NumLODLevels > 1) =>
    \A p \in 1..Len(Built) :
      /\ IsLeaf(Built[p]) => Built[p].LODSplatCount = 0
      /\ ~IsLeaf(Built[p]) =>
           /\ Built[p].LODSplatCount >= 1
           /\ Built[p].LODSplatCount <= ItemsMerged(Built[p])
           /\ Settings.LODReductionRatio < 1 =>
                Built[p].LODSplatCount = CeilDiv(ItemsMerged(Built[p]), 4)
\* ratio 0: a cluster of 6 primitives owns 2 simplified primitives
C30_Witness ==
  /\ Returned /\ Settings.bGenerateLOD /\ Settings.LODReductionRatio = 0
  /\ \E p \in 1..Len(Built) :
       Built[p].LODLevel = 1 /\ Built[p].SplatCount = 6 /\ Built[p].LODSplatCount = 2

====
